---- MODULE Spec2Model ----
(***************************************************************************)
(* Model of the energy-balancing engine of RESILIA-GRID                    *)
(* (src/src/neurogrid/energy_balancing.py): the EnergyStorage, Producer    *)
(* and Consumer entities and the EnergyBalancer that owns them.            *)
(*                                                                         *)
(* Quantities (kWh, kW) are integers.  Python dicts are modelled as        *)
(* sequences of entries in insertion order, which is the order in which    *)
(* Python iterates them.  A call that raises is recorded with              *)
(* ret.raised = TRUE; the assignments made before the raise are kept.      *)
(***************************************************************************)
EXTENDS Integers, Sequences, FiniteSets, TLC

VARIABLES
    storage_units,         \* EnergyBalancer.storage_units : dict id -> EnergyStorage
    producers,             \* EnergyBalancer.producers     : dict id -> Producer
    consumers,             \* EnergyBalancer.consumers     : dict id -> Consumer
    connected_microgrids,  \* EnergyBalancer.connected_microgrids : list of ids
    forecast_horizon,      \* EnergyBalancer.forecast_horizon (hours)
    last_add,              \* history: object most recently passed to add_* per mapping and key
    executions,            \* history: number of execute_balancing_strategy calls so far
    current_time,          \* MicrogridSimulation.current_time, in minutes
    metrics,               \* MicrogridSimulation.metrics: one record per recorded step
    call,                  \* the operation that ran last, with its arguments
    ret                    \* what that operation returned, or the exception it raised

vars == <<storage_units, producers, consumers, connected_microgrids,
          forecast_horizon, last_add, executions, current_time, metrics, call, ret>>

balancer_vars == <<producers, consumers, connected_microgrids, forecast_horizon, last_add,
                   executions, current_time, metrics>>

----------------------------------------------------------------------------
(* Bounds of the model *)

\* capacities of the stand-alone storage units are 0..MaxCapacity
MaxCapacity == 3

\* amounts passed to charge/discharge are -MaxAmount..MaxAmount
MaxAmount == 4

MaxDuration == 2

\* charge/discharge are only called while |current_level| <= MaxLevel
MaxLevel == 6

----------------------------------------------------------------------------
(* Helpers *)

Min(a, b) == IF a <= b THEN a ELSE b

Abs(a) == IF a < 0 THEN -a ELSE a

Returned(v) == [raised |-> FALSE, value |-> v]

Raised(e) == [raised |-> TRUE, value |-> e]

NoCall == [name |-> "none"]

----------------------------------------------------------------------------
(* EnergyStorage *)

\* available_capacity property
available_capacity(s) == s.capacity - s.current_level

\* state_of_charge property: (current_level / capacity) * 100, a division
\* that raises ZeroDivisionError when capacity = 0.  The quotient is kept
\* exact as the fraction num/den.
soc_raises(s) == s.capacity = 0

state_of_charge(s) == [num |-> s.current_level * 100, den |-> s.capacity]

\* variant: the level is set to the amount instead of raised by it
charge_sets_level(s, amount) ==
    LET actual_amount == Min(amount, available_capacity(s))
        s2 == [s EXCEPT !.current_level = actual_amount]
    IN [unit |-> s2,
        out  |-> IF soc_raises(s2) THEN Raised("ZeroDivisionError")
                                   ELSE Returned(actual_amount)]

\* EnergyStorage.charge: the new unit and the outcome of the call.  The log
\* line after the assignment formats state_of_charge, so the call raises
\* there, with current_level already updated, when capacity = 0.
charge(s, amount) ==
    LET actual_amount == Min(amount, available_capacity(s))
        s2 == [s EXCEPT !.current_level = @ + actual_amount]
    IN [unit |-> s2,
        out  |-> IF soc_raises(s2) THEN Raised("ZeroDivisionError")
                                   ELSE Returned(actual_amount)]

\* EnergyStorage.discharge
discharge(s, amount) ==
    LET actual_amount == Min(amount, s.current_level)
        s2 == [s EXCEPT !.current_level = @ - actual_amount]
    IN [unit |-> s2,
        out  |-> IF soc_raises(s2) THEN Raised("ZeroDivisionError")
                                   ELSE Returned(actual_amount)]

----------------------------------------------------------------------------
(* Specification SpecStorage: one storage unit allowed by the data model   *)
(* (capacity >= 0, 0 <= current_level <= capacity), on which charge and    *)
(* discharge are called directly with arbitrary amounts.                   *)

\* the amounts passed to charge and discharge: any sign, magnitude up to MaxAmount
Magnitudes == 0..MaxAmount

Durations == (0 - MaxDuration)..MaxDuration

Signs == {1, -1}

\* rate = amount / duration if duration > 0 else float('inf'); rate <= limit.
\* For duration > 0, amount / duration <= limit iff amount <= limit * duration;
\* infinity is above every finite limit.
rate_within(amount, duration, limit) ==
    IF duration > 0 THEN amount <= limit * duration ELSE FALSE

\* variant: the capacity test is left out
can_charge_ignores_capacity(s, amount, duration) ==
    rate_within(amount, duration, s.max_charge_rate)

can_charge(s, amount, duration) ==
    /\ rate_within(amount, duration, s.max_charge_rate)
    /\ amount <= available_capacity(s)

can_discharge(s, amount, duration) ==
    /\ rate_within(amount, duration, s.max_discharge_rate)
    /\ amount <= s.current_level

StorageUnit(id, type, capacity, current_level, max_charge_rate, max_discharge_rate, priority) ==
    [id |-> id, type |-> type, capacity |-> capacity, current_level |-> current_level,
     max_charge_rate |-> max_charge_rate, max_discharge_rate |-> max_discharge_rate,
     priority |-> priority]

StandaloneUnits ==
    { StorageUnit("s1", "BATTERY", c, l, 2, 2, 1) : c \in 0..MaxCapacity, l \in 0..MaxCapacity }

InitStorage ==
    /\ \E u \in StandaloneUnits :
         /\ u.current_level <= u.capacity
         /\ storage_units = <<u>>
    /\ producers = <<>>
    /\ consumers = <<>>
    /\ connected_microgrids = <<>>
    /\ forecast_horizon = 24
    /\ last_add = {}
    /\ executions = 0
    /\ current_time = 0
    /\ metrics = <<>>
    /\ call = NoCall
    /\ ret = Returned(0)

InLevelBound(s) == Abs(s.current_level) <= MaxLevel

Charge ==
    \E i \in DOMAIN storage_units, magnitude \in Magnitudes, sign \in Signs :
        /\ InLevelBound(storage_units[i])
        /\ LET amount == sign * magnitude
               r == charge(storage_units[i], amount) IN
             /\ storage_units' = [storage_units EXCEPT ![i] = r.unit]
             /\ call' = [name |-> "charge", unit |-> storage_units[i], amount |-> amount]
             /\ ret' = r.out
        /\ UNCHANGED balancer_vars

Discharge ==
    \E i \in DOMAIN storage_units, magnitude \in Magnitudes, sign \in Signs :
        /\ InLevelBound(storage_units[i])
        /\ LET amount == sign * magnitude
               r == discharge(storage_units[i], amount) IN
             /\ storage_units' = [storage_units EXCEPT ![i] = r.unit]
             /\ call' = [name |-> "discharge", unit |-> storage_units[i], amount |-> amount]
             /\ ret' = r.out
        /\ UNCHANGED balancer_vars

CanCharge ==
    \E i \in DOMAIN storage_units, magnitude \in Magnitudes, sign \in Signs,
       duration \in Durations :
        /\ call' = [name |-> "can_charge", unit |-> storage_units[i],
                    amount |-> sign * magnitude, duration |-> duration]
        /\ ret' = Returned(can_charge(storage_units[i], sign * magnitude, duration))
        /\ UNCHANGED storage_units
        /\ UNCHANGED balancer_vars

CanDischarge ==
    \E i \in DOMAIN storage_units, magnitude \in Magnitudes, sign \in Signs,
       duration \in Durations :
        /\ call' = [name |-> "can_discharge", unit |-> storage_units[i],
                    amount |-> sign * magnitude, duration |-> duration]
        /\ ret' = Returned(can_discharge(storage_units[i], sign * magnitude, duration))
        /\ UNCHANGED storage_units
        /\ UNCHANGED balancer_vars

NextStorage == Charge \/ Discharge \/ CanCharge \/ CanDischarge

SpecStorage == InitStorage /\ [][NextStorage]_vars

----------------------------------------------------------------------------
(* Producer, Consumer *)

\* A forecast dict {timestamp: kW} is a sequence of entries [ts, value] in
\* insertion order; timestamps are minutes.
Producer(id, type, current_production, forecast) ==
    [id |-> id, type |-> type, current_production |-> current_production,
     forecast |-> forecast]

\* flexibility is the fraction num/den
Consumer(id, type, current_demand, forecast, flexibility, priority) ==
    [id |-> id, type |-> type, current_demand |-> current_demand,
     forecast |-> forecast, flexibility |-> flexibility, priority |-> priority]

----------------------------------------------------------------------------
(* EnergyBalancer: registration *)

\* d[k] = v of a Python dict whose entries are stored under their own id:
\* an existing key keeps its position and gets the new value, a new key is
\* appended.
DictPutDup(d, obj) == Append(d, obj)

DictPut(d, obj) ==
    IF \E i \in DOMAIN d : d[i].id = obj.id
    THEN [i \in DOMAIN d |-> IF d[i].id = obj.id THEN obj ELSE d[i]]
    ELSE Append(d, obj)

Keys(d) == { d[i].id : i \in DOMAIN d }

\* the history of add calls: <<mapping, object>> of the last add per (mapping, id)
Remember(h, mapping, obj) ==
    LET kept == { e \in h : ~(e[1] = mapping /\ e[2] = obj.id) }
    IN kept \cup { <<mapping, obj.id, obj>> }

StorageCatalog ==
    { StorageUnit(id, "BATTERY", c, 0, 2, 2, 1) : id \in {"s1", "s2"}, c \in {0, MaxCapacity} }

ProducerCatalog ==
    { Producer(id, "SOLAR", p, <<>>) : id \in {"p1", "p2"}, p \in {0, MaxAmount} }

ConsumerCatalog ==
    { Consumer(id, "residential", q, <<>>, [num |-> 1, den |-> 2], 1) :
        id \in {"c1", "c2"}, q \in {0, MaxAmount} }

InitRegistry ==
    /\ storage_units = <<>>
    /\ producers = <<>>
    /\ consumers = <<>>
    /\ connected_microgrids = <<>>
    /\ forecast_horizon = 24
    /\ last_add = {}
    /\ executions = 0
    /\ current_time = 0
    /\ metrics = <<>>
    /\ call = NoCall
    /\ ret = Returned(0)

add_storage ==
    \E storage \in StorageCatalog :
        /\ storage_units' = DictPut(storage_units, storage)
        /\ last_add' = Remember(last_add, "storage_units", storage)
        /\ call' = [name |-> "add_storage", id |-> storage.id, before |-> storage_units]
        /\ ret' = Returned(0)
        /\ UNCHANGED <<producers, consumers, connected_microgrids, forecast_horizon, executions,
                     current_time, metrics>>

add_producer ==
    \E producer \in ProducerCatalog :
        /\ producers' = DictPut(producers, producer)
        /\ last_add' = Remember(last_add, "producers", producer)
        /\ call' = [name |-> "add_producer", id |-> producer.id, before |-> producers]
        /\ ret' = Returned(0)
        /\ UNCHANGED <<storage_units, consumers, connected_microgrids, forecast_horizon, executions,
                     current_time, metrics>>

add_consumer ==
    \E consumer \in ConsumerCatalog :
        /\ consumers' = DictPut(consumers, consumer)
        /\ last_add' = Remember(last_add, "consumers", consumer)
        /\ call' = [name |-> "add_consumer", id |-> consumer.id, before |-> consumers]
        /\ ret' = Returned(0)
        /\ UNCHANGED <<storage_units, producers, connected_microgrids, forecast_horizon, executions,
                     current_time, metrics>>

NextRegistry == add_storage \/ add_producer \/ add_consumer

SpecRegistry == InitRegistry /\ [][NextRegistry]_vars

----------------------------------------------------------------------------
(* Forecast lookup *)

Hour == 60

RECURSIVE SeqSum(_)
SeqSum(q) == IF q = <<>> THEN 0 ELSE Head(q) + SeqSum(Tail(q))

\* A key of a forecast dict is a string that denotes an instant: ts is the
\* instant in minutes and form tells how it is written.  "str" is the text
\* that str(pd.Timestamp) produces ("2024-01-01 10:00:00"); "iso" is another
\* text that pd.Timestamp parses to the same instant ("2024-01-01T10:00:00").
KeyForms == {"str", "iso"}

\* str(timestamp) for a pd.Timestamp
str(timestamp) == [ts |-> timestamp, form |-> "str"]

\* pd.Timestamp(key) for a key of the dict: the instant, whatever the form
Timestamp(key) == key.ts

EntryAs(form, ts, value) == [ts |-> ts, form |-> form, value |-> value]

\* an entry under the key str(ts)
Entry(ts, value) == EntryAs("str", ts, value)

KeyOf(entry) == [ts |-> entry.ts, form |-> entry.form]

\* key in forecast
HasKey(forecast, key) == \E i \in DOMAIN forecast : KeyOf(forecast[i]) = key

\* forecast[key]: a KeyError when the key is absent
Subscript(forecast, key) ==
    IF HasKey(forecast, key)
    THEN Returned(forecast[CHOOSE i \in DOMAIN forecast : KeyOf(forecast[i]) = key].value)
    ELSE Raised("KeyError")

\* min(timestamps, key=lambda x: abs(x - timestamp)) over the parsed keys:
\* the first one, in iteration order, whose distance to the timestamp is
\* minimal
Closest(forecast, timestamp) ==
    LET timestamps == [i \in DOMAIN forecast |-> Timestamp(KeyOf(forecast[i]))]
        dist(i) == Abs(timestamps[i] - timestamp)
        best == CHOOSE i \in DOMAIN timestamps :
                    /\ \A j \in DOMAIN timestamps : dist(i) <= dist(j)
                    /\ \A j \in DOMAIN timestamps : dist(j) = dist(i) => i <= j
    IN timestamps[best]

\* Producer.get_forecast / Consumer.get_forecast
get_forecast(e, timestamp) ==
    IF HasKey(e.forecast, str(timestamp))
    THEN Subscript(e.forecast, str(timestamp))
    ELSE IF e.forecast = <<>> THEN Returned(0)
    ELSE Subscript(e.forecast, str(Closest(e.forecast, timestamp)))

\* some get_forecast(timestamp) of the producers or consumers raises
forecast_raises(P, C, timestamp) ==
    \/ \E i \in DOMAIN P : get_forecast(P[i], timestamp).raised
    \/ \E i \in DOMAIN C : get_forecast(C[i], timestamp).raised

production_forecast(P, timestamp) ==
    SeqSum([i \in DOMAIN P |-> get_forecast(P[i], timestamp).value])

consumption_forecast(C, timestamp) ==
    SeqSum([i \in DOMAIN C |-> get_forecast(C[i], timestamp).value])

----------------------------------------------------------------------------
(* EnergyBalancer: balance and forecast *)

Frac(n, d) == [num |-> n, den |-> d]

FracEq(a, b) == a.num * b.den = b.num * a.den

\* a < b for fractions with positive denominators
FracLess(a, b) == a.num * b.den < b.num * a.den

\* the variant that divides without testing the denominator
get_current_balance_unguarded(P, C, S) ==
    LET total_production == SeqSum([i \in DOMAIN P |-> P[i].current_production])
        total_consumption == SeqSum([i \in DOMAIN C |-> C[i].current_demand])
        storage_capacity == SeqSum([i \in DOMAIN S |-> available_capacity(S[i])])
        storage_level == SeqSum([i \in DOMAIN S |-> S[i].current_level])
    IN IF storage_capacity = 0 THEN Raised("ZeroDivisionError")
       ELSE Returned([production |-> total_production,
                      consumption |-> total_consumption,
                      balance |-> total_production - total_consumption,
                      storage_capacity |-> storage_capacity,
                      storage_level |-> storage_level,
                      storage_percentage |-> Frac(storage_level * 100, storage_capacity)])

\* EnergyBalancer.get_current_balance
get_current_balance(P, C, S) ==
    LET total_production == SeqSum([i \in DOMAIN P |-> P[i].current_production])
        total_consumption == SeqSum([i \in DOMAIN C |-> C[i].current_demand])
        balance == total_production - total_consumption
        storage_capacity == SeqSum([i \in DOMAIN S |-> available_capacity(S[i])])
        storage_level == SeqSum([i \in DOMAIN S |-> S[i].current_level])
    IN Returned([production |-> total_production,
                 consumption |-> total_consumption,
                 balance |-> balance,
                 storage_capacity |-> storage_capacity,
                 storage_level |-> storage_level,
                 storage_percentage |->
                     IF storage_capacity > 0
                     THEN Frac(storage_level * 100, storage_capacity)
                     ELSE Frac(0, 1)])

\* an optional argument: <<>> is None, <<n>> is the number n
None == <<>>

\* Python's "a or b" for an optional number a: b when a is None or 0
Or(a, b) == IF a = None \/ a = <<0>> THEN b ELSE a[1]

\* a get_forecast inside forecast_balance raises
forecast_balance_raises(P, C, horizon_hours, default_horizon, now) ==
    \E k \in 1..Or(horizon_hours, default_horizon) :
        forecast_raises(P, C, now + (k - 1) * Hour)

\* EnergyBalancer.forecast_balance, called at wall-clock time now; its rows
\* when no get_forecast raises
forecast_balance(P, C, horizon_hours, default_horizon, now) ==
    LET periods == Or(horizon_hours, default_horizon)
    IN [k \in 1..periods |->
          LET ts == now + (k - 1) * Hour
              production == production_forecast(P, ts)
              consumption == consumption_forecast(C, ts)
          IN [timestamp |-> ts, production |-> production,
              consumption |-> consumption, balance |-> production - consumption]]

----------------------------------------------------------------------------
(* EnergyBalancer: storage allocation *)

\* variant: among equal priority the lower state of charge comes first
StorageKeyLess_lowest_charge_first(a, b) ==
    \/ a.priority < b.priority
    \/ (a.priority = b.priority /\ FracLess(state_of_charge(a), state_of_charge(b)))

\* key=lambda x: (x.priority, -x.state_of_charge)
StorageKeyLess(a, b) ==
    \/ a.priority < b.priority
    \/ (a.priority = b.priority /\ FracLess(state_of_charge(b), state_of_charge(a)))

\* sorted(q, key=lambda x: (x.priority, -x.state_of_charge)): the stable
\* ascending sort, in which equal keys keep the order of q
sorted_by_priority_and_charge(q) ==
    LET pos(i) == 1 + Cardinality({ j \in DOMAIN q :
                        \/ StorageKeyLess(q[j], q[i])
                        \/ (~StorageKeyLess(q[i], q[j]) /\ j < i) })
    IN [k \in DOMAIN q |-> q[CHOOSE i \in DOMAIN q : pos(i) = k]]

Min3(a, b, c) == Min(a, Min(b, c))

Decision(unit, action, amount) ==
    [storage_id |-> unit.id, action |-> action, amount |-> amount, unit |-> unit.type]

\* decisions[unit.id] = {...}
PutDecision(decisions, d) ==
    IF \E i \in DOMAIN decisions : decisions[i].storage_id = d.storage_id
    THEN [i \in DOMAIN decisions |->
            IF decisions[i].storage_id = d.storage_id THEN d ELSE decisions[i]]
    ELSE Append(decisions, d)

\* variant: the loop ends after the first decision
RECURSIVE allocate_charge_first_only(_, _, _)
allocate_charge_first_only(sorted_units, remaining_surplus, decisions) ==
    IF sorted_units = <<>> \/ remaining_surplus <= 0 \/ decisions # <<>> THEN decisions
    ELSE LET unit == Head(sorted_units)
             max_charge == Min3(available_capacity(unit), unit.max_charge_rate,
                                remaining_surplus)
         IN IF max_charge > 0
            THEN allocate_charge_first_only(Tail(sorted_units),
                     remaining_surplus - max_charge,
                     PutDecision(decisions, Decision(unit, "charge", max_charge)))
            ELSE allocate_charge_first_only(Tail(sorted_units), remaining_surplus,
                                            decisions)

\* variant: a decision is recorded whatever the sign of max_charge
RECURSIVE allocate_charge_any_sign(_, _, _)
allocate_charge_any_sign(sorted_units, remaining_surplus, decisions) ==
    IF sorted_units = <<>> \/ remaining_surplus <= 0 THEN decisions
    ELSE LET unit == Head(sorted_units)
             max_charge == Min3(available_capacity(unit), unit.max_charge_rate,
                                remaining_surplus)
         IN allocate_charge_any_sign(Tail(sorted_units), remaining_surplus - max_charge,
                PutDecision(decisions, Decision(unit, "charge", max_charge)))

\* variant: remaining_surplus is not reduced by what was allocated
RECURSIVE allocate_charge_keeps_surplus(_, _, _)
allocate_charge_keeps_surplus(sorted_units, remaining_surplus, decisions) ==
    IF sorted_units = <<>> \/ remaining_surplus <= 0 THEN decisions
    ELSE LET unit == Head(sorted_units)
             max_charge == Min3(available_capacity(unit), unit.max_charge_rate,
                                remaining_surplus)
         IN IF max_charge > 0
            THEN allocate_charge_keeps_surplus(Tail(sorted_units), remaining_surplus,
                     PutDecision(decisions, Decision(unit, "charge", max_charge)))
            ELSE allocate_charge_keeps_surplus(Tail(sorted_units), remaining_surplus,
                                               decisions)

\* variant: max_charge_rate is left out of the minimum
RECURSIVE allocate_charge_ignores_rate(_, _, _)
allocate_charge_ignores_rate(sorted_units, remaining_surplus, decisions) ==
    IF sorted_units = <<>> \/ remaining_surplus <= 0 THEN decisions
    ELSE LET unit == Head(sorted_units)
             max_charge == Min(available_capacity(unit), remaining_surplus)
         IN IF max_charge > 0
            THEN allocate_charge_ignores_rate(Tail(sorted_units),
                     remaining_surplus - max_charge,
                     PutDecision(decisions, Decision(unit, "charge", max_charge)))
            ELSE allocate_charge_ignores_rate(Tail(sorted_units), remaining_surplus,
                                              decisions)

\* the loop over sorted_units of the surplus branch
RECURSIVE allocate_charge(_, _, _)
allocate_charge(sorted_units, remaining_surplus, decisions) ==
    IF sorted_units = <<>> \/ remaining_surplus <= 0 THEN decisions
    ELSE LET unit == Head(sorted_units)
             max_charge == Min3(available_capacity(unit), unit.max_charge_rate,
                                remaining_surplus)
         IN IF max_charge > 0
            THEN allocate_charge(Tail(sorted_units), remaining_surplus - max_charge,
                                 PutDecision(decisions, Decision(unit, "charge", max_charge)))
            ELSE allocate_charge(Tail(sorted_units), remaining_surplus, decisions)

\* variant: current_level is left out of the minimum
RECURSIVE allocate_discharge_ignores_level(_, _, _)
allocate_discharge_ignores_level(sorted_units, remaining_deficit, decisions) ==
    IF sorted_units = <<>> \/ remaining_deficit <= 0 THEN decisions
    ELSE LET unit == Head(sorted_units)
             max_discharge == Min(unit.max_discharge_rate, remaining_deficit)
         IN IF max_discharge > 0
            THEN allocate_discharge_ignores_level(Tail(sorted_units),
                     remaining_deficit - max_discharge,
                     PutDecision(decisions, Decision(unit, "discharge", max_discharge)))
            ELSE allocate_discharge_ignores_level(Tail(sorted_units), remaining_deficit,
                                                  decisions)

\* variant: a decision is recorded whatever the sign of max_discharge
RECURSIVE allocate_discharge_any_sign(_, _, _)
allocate_discharge_any_sign(sorted_units, remaining_deficit, decisions) ==
    IF sorted_units = <<>> \/ remaining_deficit <= 0 THEN decisions
    ELSE LET unit == Head(sorted_units)
             max_discharge == Min3(unit.current_level, unit.max_discharge_rate,
                                   remaining_deficit)
         IN allocate_discharge_any_sign(Tail(sorted_units),
                remaining_deficit - max_discharge,
                PutDecision(decisions, Decision(unit, "discharge", max_discharge)))

\* variant: max_discharge_rate is left out of the minimum
RECURSIVE allocate_discharge_ignores_rate(_, _, _)
allocate_discharge_ignores_rate(sorted_units, remaining_deficit, decisions) ==
    IF sorted_units = <<>> \/ remaining_deficit <= 0 THEN decisions
    ELSE LET unit == Head(sorted_units)
             max_discharge == Min(unit.current_level, remaining_deficit)
         IN IF max_discharge > 0
            THEN allocate_discharge_ignores_rate(Tail(sorted_units),
                     remaining_deficit - max_discharge,
                     PutDecision(decisions, Decision(unit, "discharge", max_discharge)))
            ELSE allocate_discharge_ignores_rate(Tail(sorted_units), remaining_deficit,
                                                 decisions)

\* the loop over sorted_units of the deficit branch
RECURSIVE allocate_discharge(_, _, _)
allocate_discharge(sorted_units, remaining_deficit, decisions) ==
    IF sorted_units = <<>> \/ remaining_deficit <= 0 THEN decisions
    ELSE LET unit == Head(sorted_units)
             max_discharge == Min3(unit.current_level, unit.max_discharge_rate,
                                   remaining_deficit)
         IN IF max_discharge > 0
            THEN allocate_discharge(Tail(sorted_units), remaining_deficit - max_discharge,
                                    PutDecision(decisions,
                                                Decision(unit, "discharge", max_discharge)))
            ELSE allocate_discharge(Tail(sorted_units), remaining_deficit, decisions)

\* variant: units without room pass the filter
HasAvailableCapacity_or_none(s) == available_capacity(s) >= 0

HasAvailableCapacity(s) == available_capacity(s) > 0

HasLevel(s) == s.current_level > 0

\* variant: the two branches are exchanged
optimize_storage_allocation_swapped(P, C, S, timestamp) ==
    LET energy_balance == production_forecast(P, timestamp)
                            - consumption_forecast(C, timestamp)
        charge_units == SelectSeq(S, HasAvailableCapacity)
        discharge_units == SelectSeq(S, HasLevel)
    IN IF forecast_raises(P, C, timestamp) THEN Raised("KeyError")
       ELSE IF energy_balance < 0
       THEN Returned(allocate_charge(sorted_by_priority_and_charge(charge_units),
                                     Abs(energy_balance), <<>>))
       ELSE IF energy_balance > 0
       THEN Returned(allocate_discharge(sorted_by_priority_and_charge(discharge_units),
                                        energy_balance, <<>>))
       ELSE Returned(<<>>)

\* EnergyBalancer.optimize_storage_allocation.  Sorting evaluates
\* state_of_charge of every unit that passed the filter.
optimize_storage_allocation(P, C, S, timestamp) ==
    LET energy_balance == production_forecast(P, timestamp)
                            - consumption_forecast(C, timestamp)
        charge_units == SelectSeq(S, HasAvailableCapacity)
        discharge_units == SelectSeq(S, HasLevel)
    IN IF forecast_raises(P, C, timestamp) THEN Raised("KeyError")
       ELSE IF energy_balance > 0
       THEN IF \E i \in DOMAIN charge_units : soc_raises(charge_units[i])
            THEN Raised("ZeroDivisionError")
            ELSE Returned(allocate_charge(sorted_by_priority_and_charge(charge_units),
                                          energy_balance, <<>>))
       ELSE IF energy_balance < 0
       THEN IF \E i \in DOMAIN discharge_units : soc_raises(discharge_units[i])
            THEN Raised("ZeroDivisionError")
            ELSE Returned(allocate_discharge(sorted_by_priority_and_charge(discharge_units),
                                             Abs(energy_balance), <<>>))
       ELSE Returned(<<>>)

----------------------------------------------------------------------------
(* EnergyBalancer: load prioritization *)

\* variant: among equal priority the less flexible consumer comes first
ConsumerKeyLess_least_flexible_first(a, b) ==
    \/ a.priority > b.priority
    \/ (a.priority = b.priority /\ FracLess(a.flexibility, b.flexibility))

\* key=lambda x: (-x.priority, -x.flexibility)
ConsumerKeyLess(a, b) ==
    \/ a.priority > b.priority
    \/ (a.priority = b.priority /\ FracLess(b.flexibility, a.flexibility))

\* variant: the consumers are left in the order of the dict
unsorted_consumers(q) == q

\* sorted(self.consumers.values(), key=lambda x: (-x.priority, -x.flexibility)),
\* stable
sorted_by_criticality(q) ==
    LET pos(i) == 1 + Cardinality({ j \in DOMAIN q :
                        \/ ConsumerKeyLess(q[j], q[i])
                        \/ (~ConsumerKeyLess(q[i], q[j]) /\ j < i) })
    IN [k \in DOMAIN q |-> q[CHOOSE i \in DOMAIN q : pos(i) = k]]

\* current_demand * flexibility; the model only evaluates it where the
\* product is a whole number (FlexibleDemandExact)
flexible_demand(c) == (c.current_demand * c.flexibility.num) \div c.flexibility.den

FlexibleDemandExact(C) ==
    \A i \in DOMAIN C :
        /\ C[i].current_demand >= 0
        /\ (C[i].current_demand * C[i].flexibility.num) % C[i].flexibility.den = 0

HasFlexibleDemand(c) == flexible_demand(c) > 0

Recommendation(c) ==
    [consumer_id |-> c.id, type |-> c.type, current_demand |-> c.current_demand,
     flexible_demand |-> flexible_demand(c), priority |-> c.priority]

\* EnergyBalancer.prioritize_loads
prioritize_loads(C) ==
    LET sorted_consumers == sorted_by_criticality(C)
        flexible == SelectSeq(sorted_consumers, HasFlexibleDemand)
    IN [i \in DOMAIN flexible |-> Recommendation(flexible[i])]

----------------------------------------------------------------------------
(* EnergyBalancer: strategy orchestration *)

IndexOf(d, id) == CHOOSE i \in DOMAIN d : d[i].id = id

\* step 1 of execute_balancing_strategy: the loop that applies the storage
\* decisions.  A raise inside charge/discharge ends the loop and the call.
RECURSIVE apply_decisions(_, _, _)
apply_decisions(S, decisions, storage_actions) ==
    IF decisions = <<>>
    THEN [storage_units |-> S, storage_actions |-> storage_actions, raised |-> FALSE]
    ELSE LET decision == Head(decisions)
             i == IndexOf(S, decision.storage_id)
             r == IF decision.action = "charge"
                  THEN charge(S[i], decision.amount)
                  ELSE discharge(S[i], decision.amount)
             S2 == [S EXCEPT ![i] = r.unit]
         IN IF r.out.raised
            THEN [storage_units |-> S2, storage_actions |-> storage_actions,
                  raised |-> TRUE]
            ELSE apply_decisions(S2, Tail(decisions),
                     Append(storage_actions,
                            [storage_id |-> decision.storage_id,
                             type |-> decision.unit,
                             action |-> decision.action,
                             amount |-> r.out.value]))

\* variant: the reduction is not limited to the remaining deficit
RECURSIVE shed_loads_unclamped(_, _, _, _)
shed_loads_unclamped(C, load_priorities, remaining_deficit, load_management) ==
    IF load_priorities = <<>> \/ remaining_deficit <= 0
    THEN [consumers |-> C, load_management |-> load_management]
    ELSE LET load_info == Head(load_priorities)
             reduction == load_info.flexible_demand
             i == IndexOf(C, load_info.consumer_id)
         IN IF reduction > 0
            THEN shed_loads_unclamped([C EXCEPT ![i].current_demand = @ - reduction],
                            Tail(load_priorities),
                            remaining_deficit - reduction,
                            Append(load_management,
                                   [consumer_id |-> load_info.consumer_id,
                                    type |-> load_info.type,
                                    reduction |-> reduction]))
            ELSE shed_loads_unclamped(C, Tail(load_priorities), remaining_deficit,
                                      load_management)

\* variant: the loop ends after the first reduction
RECURSIVE shed_loads_first_only(_, _, _, _)
shed_loads_first_only(C, load_priorities, remaining_deficit, load_management) ==
    IF load_priorities = <<>> \/ remaining_deficit <= 0 \/ load_management # <<>>
    THEN [consumers |-> C, load_management |-> load_management]
    ELSE LET load_info == Head(load_priorities)
             reduction == Min(load_info.flexible_demand, remaining_deficit)
             i == IndexOf(C, load_info.consumer_id)
         IN IF reduction > 0
            THEN shed_loads_first_only([C EXCEPT ![i].current_demand = @ - reduction],
                            Tail(load_priorities),
                            remaining_deficit - reduction,
                            Append(load_management,
                                   [consumer_id |-> load_info.consumer_id,
                                    type |-> load_info.type,
                                    reduction |-> reduction]))
            ELSE shed_loads_first_only(C, Tail(load_priorities), remaining_deficit,
                                       load_management)

\* variant: the reductions are reported and current_demand is left alone
RECURSIVE shed_loads_reports_only(_, _, _, _)
shed_loads_reports_only(C, load_priorities, remaining_deficit, load_management) ==
    IF load_priorities = <<>> \/ remaining_deficit <= 0
    THEN [consumers |-> C, load_management |-> load_management]
    ELSE LET load_info == Head(load_priorities)
             reduction == Min(load_info.flexible_demand, remaining_deficit)
         IN IF reduction > 0
            THEN shed_loads_reports_only(C, Tail(load_priorities),
                            remaining_deficit - reduction,
                            Append(load_management,
                                   [consumer_id |-> load_info.consumer_id,
                                    type |-> load_info.type,
                                    reduction |-> reduction]))
            ELSE shed_loads_reports_only(C, Tail(load_priorities), remaining_deficit,
                                         load_management)

\* step 2: the loop over load_priorities
RECURSIVE shed_loads(_, _, _, _)
shed_loads(C, load_priorities, remaining_deficit, load_management) ==
    IF load_priorities = <<>> \/ remaining_deficit <= 0
    THEN [consumers |-> C, load_management |-> load_management]
    ELSE LET load_info == Head(load_priorities)
             reduction == Min(load_info.flexible_demand, remaining_deficit)
             i == IndexOf(C, load_info.consumer_id)
         IN IF reduction > 0
            THEN shed_loads([C EXCEPT ![i].current_demand = @ - reduction],
                            Tail(load_priorities),
                            remaining_deficit - reduction,
                            Append(load_management,
                                   [consumer_id |-> load_info.consumer_id,
                                    type |-> load_info.type,
                                    reduction |-> reduction]))
            ELSE shed_loads(C, Tail(load_priorities), remaining_deficit, load_management)

ExportThreshold == 20

ImportThreshold == 10

MaxExchange == 10

\* variant: an export is recorded but not subtracted from immediate_balance
RECURSIVE exchange_keeps_balance(_, _, _, _)
exchange_keeps_balance(peers, immediate_balance, grid_exchange, tested) ==
    IF peers = <<>>
    THEN [grid_exchange |-> grid_exchange, tested |-> tested]
    ELSE LET connected_grid == Head(peers)
             seen == Append(tested, immediate_balance)
         IN IF immediate_balance > ExportThreshold
            THEN LET exchange_amount == Min(MaxExchange, immediate_balance - ExportThreshold)
                 IN exchange_keeps_balance(Tail(peers), immediate_balance,
                             Append(grid_exchange,
                                    [connected_grid |-> connected_grid,
                                     direction |-> "export",
                                     amount |-> exchange_amount]),
                             seen)
            ELSE IF immediate_balance < -ImportThreshold
            THEN LET exchange_amount == Min(MaxExchange,
                                            Abs(immediate_balance) - ImportThreshold)
                 IN exchange_keeps_balance(Tail(peers), immediate_balance + exchange_amount,
                             Append(grid_exchange,
                                    [connected_grid |-> connected_grid,
                                     direction |-> "import",
                                     amount |-> exchange_amount]),
                             seen)
            ELSE exchange_keeps_balance(Tail(peers), immediate_balance, grid_exchange, seen)

\* variant: every export and import is of the full MaxExchange
RECURSIVE exchange_full_amount(_, _, _, _)
exchange_full_amount(peers, immediate_balance, grid_exchange, tested) ==
    IF peers = <<>>
    THEN [grid_exchange |-> grid_exchange, tested |-> tested]
    ELSE LET connected_grid == Head(peers)
             seen == Append(tested, immediate_balance)
         IN IF immediate_balance > ExportThreshold
            THEN exchange_full_amount(Tail(peers), immediate_balance - MaxExchange,
                             Append(grid_exchange,
                                    [connected_grid |-> connected_grid,
                                     direction |-> "export",
                                     amount |-> MaxExchange]),
                             seen)
            ELSE IF immediate_balance < -ImportThreshold
            THEN exchange_full_amount(Tail(peers), immediate_balance + MaxExchange,
                             Append(grid_exchange,
                                    [connected_grid |-> connected_grid,
                                     direction |-> "import",
                                     amount |-> MaxExchange]),
                             seen)
            ELSE exchange_full_amount(Tail(peers), immediate_balance, grid_exchange, seen)

\* variant: the loop ends after the first recorded exchange
RECURSIVE exchange_once(_, _, _, _)
exchange_once(peers, immediate_balance, grid_exchange, tested) ==
    IF peers = <<>>
    THEN [grid_exchange |-> grid_exchange, tested |-> tested]
    ELSE LET connected_grid == Head(peers)
             seen == Append(tested, immediate_balance)
         IN IF immediate_balance > ExportThreshold
            THEN LET exchange_amount == Min(MaxExchange, immediate_balance - ExportThreshold)
                 IN exchange_once(<<>>, immediate_balance - exchange_amount,
                             Append(grid_exchange,
                                    [connected_grid |-> connected_grid,
                                     direction |-> "export",
                                     amount |-> exchange_amount]),
                             seen)
            ELSE IF immediate_balance < -ImportThreshold
            THEN LET exchange_amount == Min(MaxExchange,
                                            Abs(immediate_balance) - ImportThreshold)
                 IN exchange_once(<<>>, immediate_balance + exchange_amount,
                             Append(grid_exchange,
                                    [connected_grid |-> connected_grid,
                                     direction |-> "import",
                                     amount |-> exchange_amount]),
                             seen)
            ELSE exchange_once(Tail(peers), immediate_balance, grid_exchange, seen)

\* step 3: the loop over connected_microgrids.  tested is the value of
\* immediate_balance each peer was tested against, in list order.
RECURSIVE exchange(_, _, _, _)
exchange(peers, immediate_balance, grid_exchange, tested) ==
    IF peers = <<>>
    THEN [grid_exchange |-> grid_exchange, tested |-> tested]
    ELSE LET connected_grid == Head(peers)
             seen == Append(tested, immediate_balance)
         IN IF immediate_balance > ExportThreshold
            THEN LET exchange_amount == Min(MaxExchange, immediate_balance - ExportThreshold)
                 IN exchange(Tail(peers), immediate_balance - exchange_amount,
                             Append(grid_exchange,
                                    [connected_grid |-> connected_grid,
                                     direction |-> "export",
                                     amount |-> exchange_amount]),
                             seen)
            ELSE IF immediate_balance < -ImportThreshold
            THEN LET exchange_amount == Min(MaxExchange,
                                            Abs(immediate_balance) - ImportThreshold)
                 IN exchange(Tail(peers), immediate_balance + exchange_amount,
                             Append(grid_exchange,
                                    [connected_grid |-> connected_grid,
                                     direction |-> "import",
                                     amount |-> exchange_amount]),
                             seen)
            ELSE exchange(Tail(peers), immediate_balance, grid_exchange, seen)

\* variant: the deficit that is shed is what the discharged storage leaves
execute_balancing_strategy_nets_storage(P, C, S, peers, default_horizon, now) ==
    LET current_balance == get_current_balance(P, C, S).value
        forecast == forecast_balance(P, C, None, default_horizon, now)
        immediate_balance == current_balance.balance
        optimized == IF forecast = <<>> THEN Returned(<<>>)
                     ELSE optimize_storage_allocation(P, C, S, forecast[1].timestamp)
        storage_decisions == IF optimized.raised THEN <<>> ELSE optimized.value
        stored == apply_decisions(S, storage_decisions, <<>>)
        discharged == SeqSum([k \in DOMAIN stored.storage_actions |->
                                IF stored.storage_actions[k].action = "discharge"
                                THEN stored.storage_actions[k].amount ELSE 0])
        shed == IF immediate_balance < 0
                THEN shed_loads(C, prioritize_loads(C),
                                Abs(immediate_balance) - discharged, <<>>)
                ELSE [consumers |-> C, load_management |-> <<>>]
        exchanged == exchange(peers, immediate_balance, <<>>, <<>>)
    IN [storage_units |-> stored.storage_units,
        consumers |-> shed.consumers,
        out |-> Returned([current_balance |-> current_balance,
                          storage_decisions |-> storage_decisions,
                          storage_actions |-> stored.storage_actions,
                          load_management |-> shed.load_management,
                          grid_exchange |-> exchanged.grid_exchange,
                          tested |-> exchanged.tested])]

\* EnergyBalancer.execute_balancing_strategy, called at wall-clock time now:
\* the storage units and consumers it leaves behind and its outcome.  The
\* report also carries the storage decisions and the balances tested in the
\* grid-exchange loop.
execute_balancing_strategy(P, C, S, peers, default_horizon, now) ==
    LET current_balance == get_current_balance(P, C, S).value
        forecast == forecast_balance(P, C, None, default_horizon, now)
        immediate_balance == current_balance.balance
        optimized == IF forecast = <<>> THEN Returned(<<>>)
                     ELSE optimize_storage_allocation(P, C, S, forecast[1].timestamp)
        storage_decisions == IF optimized.raised THEN <<>> ELSE optimized.value
        stored == apply_decisions(S, storage_decisions, <<>>)
        shed == IF immediate_balance < 0
                THEN shed_loads(C, prioritize_loads(C), Abs(immediate_balance), <<>>)
                ELSE [consumers |-> C, load_management |-> <<>>]
        exchanged == exchange(peers, immediate_balance, <<>>, <<>>)
    IN IF forecast_balance_raises(P, C, None, default_horizon, now)
       THEN [storage_units |-> S, consumers |-> C, out |-> Raised("KeyError")]
       ELSE IF optimized.raised
       THEN [storage_units |-> S, consumers |-> C, out |-> optimized]
       ELSE IF stored.raised
       THEN [storage_units |-> stored.storage_units, consumers |-> C,
             out |-> Raised("ZeroDivisionError")]
       ELSE [storage_units |-> stored.storage_units,
             consumers |-> shed.consumers,
             out |-> Returned([current_balance |-> current_balance,
                               storage_decisions |-> storage_decisions,
                               storage_actions |-> stored.storage_actions,
                               load_management |-> shed.load_management,
                               grid_exchange |-> exchanged.grid_exchange,
                               tested |-> exchanged.tested])]

----------------------------------------------------------------------------
(* Specification SpecBalancer: a balancer after setup, on which the        *)
(* read-only operations and execute_balancing_strategy are called.         *)

\* forecast_horizon is 0..MaxHorizon
MaxHorizon == 1

\* forecast_balance is called with None or with 0..MaxPeriods
MaxPeriods == 2

\* execute_balancing_strategy is called at most MaxExecutions times
MaxExecutions == 2

\* wall-clock times (minutes) at which operations are called
Times == {0, Hour \div 2}

Half == Frac(1, 2)

Whole == Frac(1, 1)

Zero == Frac(0, 1)

SunnyThenDark == <<Entry(0, 30), Entry(Hour, 0)>>

IdleThenBusy == <<Entry(Hour, 25), Entry(0, 0)>>

Battery == StorageUnit("s1", "BATTERY", 100, 50, 20, 20, 1)

\* same priority and state of charge as Battery
Tank == StorageUnit("s2", "HYDROGEN", 40, 20, 15, 50, 1)

LowTank == StorageUnit("s2", "HYDROGEN", 40, 20, 15, 50, 2)

FullTank == StorageUnit("s2", "HYDROGEN", 40, 40, 10, 50, 1)

NoTank == StorageUnit("s2", "HYDROGEN", 0, 0, 10, 10, 1)

EmptyTank == StorageUnit("s2", "HYDROGEN", 40, 0, 10, 50, 1)

StorageSetups ==
    { <<>>, <<Battery>>, <<NoTank>>, <<FullTank>>, <<EmptyTank>>, <<Battery, Tank>>,
      <<Tank, Battery>>, <<Battery, LowTank>>, <<Battery, NoTank>> }

Plant(p) == Producer("p1", "SOLAR", p, SunnyThenDark)

ProducerSetups ==
    { <<>>, <<Plant(8)>>, <<Plant(65)>>, <<Plant(8), Producer("p2", "WIND", 30, <<>>)>> }

Home(f) == Consumer("c1", "residential", 10, f, Half, 1)

Shops ==
    { Consumer("c2", "commercial", d, <<>>, x[1], x[2]) :
        d \in {10, 20}, x \in {<<Whole, 2>>, <<Whole, 1>>, <<Half, 1>>, <<Zero, 2>>} }

ConsumerSetups ==
    { <<>>, <<Home(<<>>)>>, <<Home(IdleThenBusy)>>,
      <<Consumer("c2", "commercial", 10, <<>>, Zero, 2)>> }
        \cup { <<Home(<<>>), c>> : c \in Shops }
        \cup { <<Home(IdleThenBusy), c>> : c \in { x \in Shops : x.current_demand = 10 } }
        \cup { <<c, Home(<<>>)>> : c \in { x \in Shops : x.current_demand = 10 } }

PeerSetups == { <<>>, <<"microgrid-02", "microgrid-03", "microgrid-04">> }

InitBalancer ==
    /\ storage_units \in StorageSetups
    /\ producers \in ProducerSetups
    /\ consumers \in ConsumerSetups
    /\ connected_microgrids \in PeerSetups
    /\ forecast_horizon \in 0..MaxHorizon
    /\ last_add = {}
    /\ executions = 0
    /\ current_time = 0
    /\ metrics = <<>>
    /\ call = NoCall
    /\ ret = Returned(0)

entity_vars == <<storage_units, producers, consumers, connected_microgrids,
                 forecast_horizon, last_add, executions, current_time, metrics>>

GetCurrentBalance ==
    /\ call' = [name |-> "get_current_balance"]
    /\ ret' = get_current_balance(producers, consumers, storage_units)
    /\ UNCHANGED entity_vars

ForecastBalance ==
    \E horizon_hours \in {None} \cup { <<n>> : n \in 0..MaxPeriods }, now \in Times :
        /\ call' = [name |-> "forecast_balance", horizon_hours |-> horizon_hours,
                    now |-> now]
        /\ ret' = IF forecast_balance_raises(producers, consumers, horizon_hours,
                                              forecast_horizon, now)
                   THEN Raised("KeyError")
                   ELSE Returned(forecast_balance(producers, consumers, horizon_hours,
                                                  forecast_horizon, now))
        /\ UNCHANGED entity_vars

\* variant: the decisions are applied to the units at once
OptimizeStorageAllocationApplied ==
    \E timestamp \in Times :
        LET out == optimize_storage_allocation(producers, consumers, storage_units, timestamp)
        IN /\ call' = [name |-> "optimize_storage_allocation", timestamp |-> timestamp]
           /\ ret' = out
           /\ storage_units' = IF out.raised THEN storage_units
                                ELSE apply_decisions(storage_units, out.value, <<>>).storage_units
           /\ UNCHANGED balancer_vars

OptimizeStorageAllocation ==
    \E timestamp \in Times :
        /\ call' = [name |-> "optimize_storage_allocation", timestamp |-> timestamp]
        /\ ret' = optimize_storage_allocation(producers, consumers, storage_units, timestamp)
        /\ UNCHANGED entity_vars

PrioritizeLoads ==
    /\ FlexibleDemandExact(consumers)
    /\ call' = [name |-> "prioritize_loads"]
    /\ ret' = Returned(prioritize_loads(consumers))
    /\ UNCHANGED entity_vars

ExecuteBalancingStrategy ==
    \E now \in Times :
        /\ executions < MaxExecutions
        /\ FlexibleDemandExact(consumers)
        /\ executions' = executions + 1
        /\ \E r \in {execute_balancing_strategy(producers, consumers, storage_units,
                                                 connected_microgrids, forecast_horizon,
                                                 now)} :
              /\ storage_units' = r.storage_units
              /\ consumers' = r.consumers
              /\ call' = [name |-> "execute_balancing_strategy", now |-> now,
                          storage_units |-> storage_units, consumers |-> consumers]
              /\ ret' = r.out
        /\ UNCHANGED <<producers, connected_microgrids, forecast_horizon, last_add,
                     current_time, metrics>>

NextBalancer ==
    \/ GetCurrentBalance
    \/ ForecastBalance
    \/ OptimizeStorageAllocation
    \/ PrioritizeLoads
    \/ ExecuteBalancingStrategy

SpecBalancer == InitBalancer /\ [][NextBalancer]_vars

----------------------------------------------------------------------------
(* Specification SpecForecast: a producer and a consumer that hold a       *)
(* forecast dict, on which get_forecast is called.                         *)

\* a forecast dict has at most MaxEntries entries
MaxEntries == 2

\* forecast values are 1..MaxValue
MaxValue == 2

Instants == {0, Hour, 2 * Hour}

QueryTimes == Instants \cup {Hour \div 2, 3 * Hour}

ForecastEntries ==
    { EntryAs(form, ts, value) : form \in KeyForms, ts \in Instants, value \in 1..MaxValue }

\* the dicts of at most MaxEntries entries: no key occurs twice
ForecastDicts ==
    { f \in UNION { [1..n -> ForecastEntries] : n \in 0..MaxEntries } :
        \A i, j \in DOMAIN f : KeyOf(f[i]) = KeyOf(f[j]) => i = j }

InitForecast ==
    /\ \E f \in ForecastDicts :
         /\ producers = <<Producer("p1", "SOLAR", 0, f)>>
         /\ consumers = <<Consumer("c1", "residential", 0, f, Half, 1)>>
    /\ storage_units = <<>>
    /\ connected_microgrids = <<>>
    /\ forecast_horizon = 24
    /\ last_add = {}
    /\ executions = 0
    /\ current_time = 0
    /\ metrics = <<>>
    /\ call = NoCall
    /\ ret = Returned(0)

ProducerGetForecast ==
    \E i \in DOMAIN producers, timestamp \in QueryTimes :
        /\ call' = [name |-> "get_forecast", forecast |-> producers[i].forecast,
                    timestamp |-> timestamp]
        /\ ret' = get_forecast(producers[i], timestamp)
        /\ UNCHANGED entity_vars

ConsumerGetForecast ==
    \E i \in DOMAIN consumers, timestamp \in QueryTimes :
        /\ call' = [name |-> "get_forecast", forecast |-> consumers[i].forecast,
                    timestamp |-> timestamp]
        /\ ret' = get_forecast(consumers[i], timestamp)
        /\ UNCHANGED entity_vars

NextForecast == ProducerGetForecast \/ ConsumerGetForecast

SpecForecast == InitForecast /\ [][NextForecast]_vars

----------------------------------------------------------------------------
(* MicrogridSimulation: the step loop that drives the balancer *)

\* the position of the first entity whose get_forecast(timestamp) raises, 0
\* when none does
first_raising(E, timestamp) ==
    IF \E i \in DOMAIN E : get_forecast(E[i], timestamp).raised
    THEN CHOOSE i \in DOMAIN E :
            /\ get_forecast(E[i], timestamp).raised
            /\ \A j \in DOMAIN E : get_forecast(E[j], timestamp).raised => i <= j
    ELSE 0

\* variant: the producers keep their current_production
update_producer_outputs_skipped(P, timestamp) == P

\* step 2 of run_timestep: producer.current_production = get_forecast(
\* current_time), in dict order up to the first producer whose lookup raises
update_producer_outputs(P, timestamp) ==
    LET stop == first_raising(P, timestamp)
    IN [i \in DOMAIN P |->
          IF stop = 0 \/ i < stop
          THEN [P[i] EXCEPT !.current_production = get_forecast(P[i], timestamp).value]
          ELSE P[i]]

\* variant: the consumers keep their current_demand
update_consumer_demands_skipped(C, timestamp) == C

\* step 3 of run_timestep: consumer.current_demand = get_forecast(current_time)
update_consumer_demands(C, timestamp) ==
    LET stop == first_raising(C, timestamp)
    IN [i \in DOMAIN C |->
          IF stop = 0 \/ i < stop
          THEN [C[i] EXCEPT !.current_demand = get_forecast(C[i], timestamp).value]
          ELSE C[i]]

RenewableSources == {"SOLAR", "WIND", "HYDRO"}

\* MicrogridSimulation.record_metrics: the six lists of metrics grow by one
\* value each, kept here as one record per step
record_metrics(m, timestamp, P, balance_actions) ==
    LET current_balance == balance_actions.current_balance
        total_production == current_balance.production
        renewable_production ==
            SeqSum([i \in DOMAIN P |->
                      IF P[i].type \in RenewableSources THEN P[i].current_production ELSE 0])
    IN Append(m, [timestamps |-> timestamp,
                  energy_balance |-> current_balance.balance,
                  storage_level |-> current_balance.storage_level,
                  renewable_penetration |->
                      IF total_production > 0
                      THEN Frac(renewable_production, total_production)
                      ELSE Frac(0, 1),
                  load_shedding |->
                      SeqSum([k \in DOMAIN balance_actions.load_management |->
                                balance_actions.load_management[k].reduction]),
                  grid_exchanges |->
                      SeqSum([k \in DOMAIN balance_actions.grid_exchange |->
                                IF balance_actions.grid_exchange[k].direction = "import"
                                THEN balance_actions.grid_exchange[k].amount
                                ELSE 0 - balance_actions.grid_exchange[k].amount])])

\* MicrogridSimulation.run_timestep at simulation time timestamp, the
\* balancer reading the wall clock now: the state it leaves behind, the
\* report of the balancer (balance_actions) and its outcome.  An exception
\* ends the step where it is raised.
run_timestep(P, C, S, peers, default_horizon, timestamp, step, m, now) ==
    LET P2 == update_producer_outputs(P, timestamp)
        C2 == update_consumer_demands(C, timestamp)
        r == execute_balancing_strategy(P2, C2, S, peers, default_horizon, now)
    IN IF first_raising(P, timestamp) # 0
       THEN [producers |-> P2, consumers |-> C, storage_units |-> S,
             current_time |-> timestamp, metrics |-> m,
             refreshed |-> C, executed |-> FALSE, balance_actions |-> None,
             out |-> Raised("KeyError")]
       ELSE IF first_raising(C, timestamp) # 0
       THEN [producers |-> P2, consumers |-> C2, storage_units |-> S,
             current_time |-> timestamp, metrics |-> m,
             refreshed |-> C2, executed |-> FALSE, balance_actions |-> None,
             out |-> Raised("KeyError")]
       ELSE IF r.out.raised
       THEN [producers |-> P2, consumers |-> r.consumers, storage_units |-> r.storage_units,
             current_time |-> timestamp, metrics |-> m,
             refreshed |-> C2, executed |-> TRUE, balance_actions |-> None, out |-> r.out]
       ELSE [producers |-> P2, consumers |-> r.consumers, storage_units |-> r.storage_units,
             current_time |-> timestamp + step,
             metrics |-> record_metrics(m, timestamp, P2, r.out.value),
             refreshed |-> C2, executed |-> TRUE, balance_actions |-> r.out.value,
             out |-> Returned(None)]

----------------------------------------------------------------------------
(* Specification SpecSimulation: run_simulation after the infrastructure   *)
(* is set up, one run_timestep per step until end_time.                    *)

\* duration_hours of the simulation
MaxDurationHours == 1

\* timestep_minutes: half an hour
timestep == Hour \div 2

start_time == 0

end_time == start_time + MaxDurationHours * Hour

\* storage units within 0 <= current_level <= capacity, with rate limits
\* above the capacity, zero and negative
Cell == StorageUnit("s1", "BATTERY", 10, 5, 50, 50, 1)

EmptyCell == StorageUnit("s1", "BATTERY", 10, 0, 4, 4, 1)

FullCell == StorageUnit("s1", "BATTERY", 10, 10, 4, 4, 1)

Flywheel(level, rate) == StorageUnit("s3", "MECHANICAL", 10, level, rate, rate, 1)

SimStorageSetups ==
    { <<>>, <<Cell>>, <<EmptyCell>>, <<FullCell>>, <<NoTank>>, <<Cell, Tank>>,
      <<NoTank, Cell>> }
      \cup { <<Flywheel(level, rate)>> : level \in {0, 5, 10}, rate \in {-5, 0} }
      \cup { <<Flywheel(level, -5), Cell>> : level \in {0, 10} }
      \cup { <<Flywheel(10, -5), Battery>> }

\* surplus at time 0, nothing at half past, a little afterwards
Sunny == <<Entry(0, 40), Entry(timestep, 0), Entry(Hour, 12)>>

SimProducerSetups ==
    { <<>>,
      <<Producer("p1", "SOLAR", 0, Sunny)>>,
      <<Producer("p1", "SOLAR", 0, Sunny), Producer("p2", "DIESEL", 0, <<Entry(0, 10)>>)>>,
      <<Producer("p1", "SOLAR", 0, Sunny),
        Producer("p2", "WIND", 0, <<EntryAs("iso", Hour, 6)>>)>> }

Evening == <<Entry(0, 10), Entry(timestep, 20), Entry(Hour, 10)>>

SimConsumerSetups ==
    { <<>>,
      <<Consumer("c1", "residential", 0, Evening, Half, 1)>>,
      <<Consumer("c1", "residential", 0, Evening, Half, 1),
        Consumer("c2", "commercial", 0, <<Entry(0, 4), Entry(timestep, 30)>>, Whole, 2)>>,
      <<Consumer("c1", "residential", 0, Evening, Half, 1),
        Consumer("c2", "commercial", 0, <<Entry(timestep, 8)>>, Zero, 2)>> }

InitSimulation ==
    /\ storage_units \in SimStorageSetups
    /\ producers \in SimProducerSetups
    /\ consumers \in SimConsumerSetups
    /\ connected_microgrids \in PeerSetups
    /\ forecast_horizon = 24
    /\ last_add = {}
    /\ executions = 0
    /\ current_time = start_time
    /\ metrics = <<>>
    /\ call = NoCall
    /\ ret = Returned(0)

RunTimestep ==
    \E now \in Times :
        /\ current_time < end_time
        /\ FlexibleDemandExact(update_consumer_demands(consumers, current_time))
        /\ \E r \in {run_timestep(producers, consumers, storage_units,
                                   connected_microgrids, forecast_horizon, current_time,
                                   timestep, metrics, now)} :
              /\ producers' = r.producers
              /\ consumers' = r.consumers
              /\ storage_units' = r.storage_units
              /\ current_time' = r.current_time
              /\ metrics' = r.metrics
              /\ executions' = IF r.executed THEN executions + 1 ELSE executions
              /\ call' = [name |-> "run_timestep", current_time |-> current_time,
                          now |-> now, storage_units |-> storage_units,
                          stale |-> consumers, consumers |-> r.refreshed,
                          balance_actions |-> r.balance_actions]
              /\ ret' = r.out
        /\ UNCHANGED <<connected_microgrids, forecast_horizon, last_add>>

NextSimulation == RunTimestep

SpecSimulation == InitSimulation /\ [][NextSimulation]_vars

----------------------------------------------------------------------------
(* C1: after any sequence of charge/discharge calls on a unit that starts  *)
(* with 0 <= current_level <= capacity, 0 <= current_level <= capacity     *)
(* still holds, whatever amounts are passed.                               *)
C1_LevelWithinCapacity ==
    \A i \in DOMAIN storage_units :
        /\ 0 <= storage_units[i].current_level
        /\ storage_units[i].current_level <= storage_units[i].capacity

(* C2: charge(amount) returns min(amount, available_capacity before the    *)
(* call) and raises current_level by exactly the returned value;           *)
(* discharge(amount) returns min(amount, current_level before the call)    *)
(* and lowers current_level by exactly the returned value.  call.unit is   *)
(* the unit as it was before the call.                                     *)
C2_ReturnsClampedAmount ==
    /\ call.name = "charge" =>
         /\ ~ret.raised
         /\ ret.value = Min(call.amount, call.unit.capacity - call.unit.current_level)
         /\ storage_units[1].current_level = call.unit.current_level + ret.value
    /\ call.name = "discharge" =>
         /\ ~ret.raised
         /\ ret.value = Min(call.amount, call.unit.current_level)
         /\ storage_units[1].current_level = call.unit.current_level - ret.value

(* C3: charge and discharge never raise, for every amount and every unit   *)
(* allowed by the data model, capacity = 0 included.                       *)
C3_NeverRaises ==
    call.name \in {"charge", "discharge"} => ~ret.raised

Executed == call.name = "execute_balancing_strategy" /\ ~ret.raised

Amounts_of(q) == SeqSum([i \in DOMAIN q |-> q[i].amount])

\* the forecast balance of the current producers and consumers at a timestamp
energy_balance_at(timestamp) ==
    production_forecast(producers, timestamp) - consumption_forecast(consumers, timestamp)

(* C4: for one call of optimize_storage_allocation(timestamp), the sum of  *)
(* the amounts of all decisions it returns never exceeds |energy_balance|  *)
(* for that timestamp.  The call made inside execute_balancing_strategy is *)
(* for the first forecast timestamp, which is the time of the call.        *)
C4_AllocationWithinBalance ==
    /\ (call.name = "optimize_storage_allocation" /\ ~ret.raised) =>
           Amounts_of(ret.value) <= Abs(energy_balance_at(call.timestamp))
    /\ Executed =>
           Amounts_of(ret.value.storage_decisions) <= Abs(energy_balance_at(call.now))

\* two units share a surplus that neither could take alone
C4_Witness ==
    /\ call.name = "optimize_storage_allocation"
    /\ ~ret.raised
    /\ Len(ret.value) = 2
    /\ energy_balance_at(call.timestamp) > 0
    /\ Amounts_of(ret.value) = energy_balance_at(call.timestamp)
    /\ ret.value[2].amount < storage_units[IndexOf(storage_units, ret.value[2].storage_id)].max_charge_rate

\* the balance of step 1, from the producers and the consumers as they were
\* before the call
step1_balance ==
    SeqSum([i \in DOMAIN producers |-> producers[i].current_production])
      - SeqSum([i \in DOMAIN call.consumers |-> call.consumers[i].current_demand])

step1_deficit == IF step1_balance < 0 THEN -step1_balance ELSE 0

(* C5: in any call of execute_balancing_strategy, load shedding never      *)
(* reduces a consumer's current_demand below zero, and the sum of all      *)
(* reported reductions never exceeds the deficit |step-1 balance|.         *)
C5_SheddingWithinDemandAndDeficit ==
    Executed =>
        /\ \A i \in DOMAIN consumers : consumers[i].current_demand >= 0
        /\ SeqSum([i \in DOMAIN ret.value.load_management |->
                      ret.value.load_management[i].reduction]) <= step1_deficit

\* two consumers are shed, the first down to zero, the second by the rest
C5_Witness ==
    /\ Executed
    /\ Len(ret.value.load_management) = 2
    /\ \E i \in DOMAIN consumers :
          consumers[i].current_demand = 0 /\ call.consumers[i].current_demand > 0
    /\ SeqSum([i \in DOMAIN ret.value.load_management |->
                  ret.value.load_management[i].reduction]) = step1_deficit

\* exports minus imports recorded for the peers before the k-th
net_export_before(k) ==
    LET earlier == { connected_microgrids[j] : j \in 1..(k - 1) }
        x == ret.value.grid_exchange
    IN SeqSum([i \in DOMAIN x |->
                 IF x[i].connected_grid \notin earlier THEN 0
                 ELSE IF x[i].direction = "export" THEN x[i].amount ELSE -x[i].amount])

(* C6: in any call of execute_balancing_strategy, every grid_exchange      *)
(* entry has amount <= 10, and the balance tested for the k-th peer equals *)
(* the step-1 balance minus all exports and plus all imports recorded for  *)
(* peers 1..k-1 of the same call.                                          *)
C6_ExchangeBoundedAndRunning ==
    Executed =>
        /\ \A i \in DOMAIN ret.value.grid_exchange : ret.value.grid_exchange[i].amount <= 10
        /\ Len(ret.value.tested) = Len(connected_microgrids)
        /\ \A k \in DOMAIN ret.value.tested :
              ret.value.tested[k] = step1_balance - net_export_before(k)

\* three peers take 10, 10 and the rest of a surplus
C6_Witness ==
    /\ Executed
    /\ Len(ret.value.grid_exchange) = 3
    /\ ret.value.grid_exchange[1].amount = 10
    /\ ret.value.grid_exchange[3].amount < 10
    /\ ret.value.tested[3] = step1_balance - 20

(* C7: forecast_balance(0) returns an empty sequence, and for every n >= 0 *)
(* forecast_balance(n) returns exactly n entries whose timestamps are      *)
(* strictly increasing in steps of one hour.                               *)
C7_ForecastHasNHourlyEntries ==
    (call.name = "forecast_balance" /\ call.horizon_hours # None) =>
        /\ Len(ret.value) = call.horizon_hours[1]
        /\ \A k \in 1..(Len(ret.value) - 1) :
              ret.value[k + 1].timestamp = ret.value[k].timestamp + Hour

(* C8: get_current_balance never faults on division: when storage_capacity *)
(* (the sum of available_capacity over all storage units) is 0, including  *)
(* when there are no storage units or all units are full, it reports       *)
(* storage_percentage = 0; otherwise it reports                            *)
(* storage_level / storage_capacity * 100.                                 *)
C8_PercentageDefined ==
    call.name = "get_current_balance" =>
        LET capacity == SeqSum([i \in DOMAIN storage_units |->
                           storage_units[i].capacity - storage_units[i].current_level])
            level == SeqSum([i \in DOMAIN storage_units |-> storage_units[i].current_level])
        IN /\ ~ret.raised
           /\ capacity = 0 => ret.value.storage_percentage.num = 0
           /\ capacity # 0 => /\ ret.value.storage_percentage.den # 0
                              /\ FracEq(ret.value.storage_percentage,
                                        Frac(level * 100, capacity))

\* every storage unit is full
C8_Witness ==
    /\ call.name = "get_current_balance"
    /\ storage_units # <<>>
    /\ \A i \in DOMAIN storage_units :
          storage_units[i].current_level = storage_units[i].capacity
    /\ \E i \in DOMAIN storage_units : storage_units[i].current_level > 0
    /\ ~ret.raised
    /\ ret.value.storage_percentage.num = 0

(* C9: add_storage, add_producer and add_consumer insert keyed by          *)
(* identity: after any sequence of add calls each mapping holds exactly    *)
(* one entry per distinct identity added, and that entry is the object     *)
(* passed by the last add call for that identity.                          *)
C9_Mapping(d, mapping) ==
    /\ \A i, j \in DOMAIN d : d[i].id = d[j].id => i = j
    /\ Keys(d) = { e[2] : e \in { x \in last_add : x[1] = mapping } }
    /\ \A i \in DOMAIN d : <<mapping, d[i].id, d[i]>> \in last_add

C9_AddKeyedByIdentity ==
    /\ C9_Mapping(storage_units, "storage_units")
    /\ C9_Mapping(producers, "producers")
    /\ C9_Mapping(consumers, "consumers")

\* the second of two identities is added again, with another object
C9_Witness ==
    /\ call.name = "add_storage"
    /\ Len(call.before) = 2
    /\ Len(storage_units) = 2
    /\ call.before[2].id = call.id
    /\ call.before[2] # storage_units[2]
    /\ call.before[1] = storage_units[1]

\* the scenario of C10 as it was before the call
C10_Scenario ==
    /\ call.name = "execute_balancing_strategy"
    /\ Len(call.storage_units) = 1
    /\ call.storage_units[1].capacity = 100
    /\ call.storage_units[1].current_level = 50
    /\ call.storage_units[1].max_charge_rate = 20
    /\ call.storage_units[1].priority = 1
    /\ forecast_horizon >= 1
    /\ energy_balance_at(call.now) = 30

(* C10: with a single storage unit (capacity 100, current_level 50,        *)
(* max_charge_rate 20, priority 1) and a forecast surplus of 30, storage   *)
(* allocation decides {charge, amount 20}, and after                       *)
(* execute_balancing_strategy applies it the unit's current_level is 70.   *)
C10_BatteryScenario ==
    C10_Scenario =>
        /\ ~ret.raised
        /\ Len(ret.value.storage_decisions) = 1
        /\ ret.value.storage_decisions[1].storage_id = call.storage_units[1].id
        /\ ret.value.storage_decisions[1].action = "charge"
        /\ ret.value.storage_decisions[1].amount = 20
        /\ storage_units[1].current_level = 70

C10_Witness ==
    /\ C10_Scenario
    /\ storage_units[1].current_level = 70

\* the consumers of the scenario of C11, before the call: hi has priority 1,
\* lo has priority 2
C11_Scenario(hi, lo) ==
    /\ DOMAIN call.consumers = {hi, lo}
    /\ hi # lo
    /\ call.consumers[hi].priority = 1
    /\ FracEq(call.consumers[hi].flexibility, Frac(1, 2))
    /\ call.consumers[hi].current_demand = 10
    /\ call.consumers[lo].priority = 2
    /\ FracEq(call.consumers[lo].flexibility, Frac(1, 1))
    /\ call.consumers[lo].current_demand = 10
    /\ step1_balance = -12

(* C11: with two consumers of priority 1 and 2, flexibility 0.5 and 1.0,   *)
(* current_demand 10 and 10 and a step-1 deficit of 12,                    *)
(* execute_balancing_strategy sheds the priority-2 consumer first by 10    *)
(* and then the priority-1 consumer by 2, leaving current_demand 8 for the *)
(* priority-1 consumer and 0 for the priority-2 consumer.                  *)
C11_TwoConsumerScenario ==
    call.name = "execute_balancing_strategy" =>
    \A hi, lo \in DOMAIN call.consumers :
        C11_Scenario(hi, lo) =>
            /\ ~ret.raised
            /\ Len(ret.value.load_management) = 2
            /\ ret.value.load_management[1].consumer_id = call.consumers[lo].id
            /\ ret.value.load_management[1].reduction = 10
            /\ ret.value.load_management[2].consumer_id = call.consumers[hi].id
            /\ ret.value.load_management[2].reduction = 2
            /\ consumers[hi].current_demand = 8
            /\ consumers[lo].current_demand = 0

\* the scenario, with the priority-1 consumer first in the dict
C11_Witness ==
    /\ call.name = "execute_balancing_strategy"
    /\ Len(call.consumers) = 2
    /\ C11_Scenario(1, 2)
    /\ consumers[1].current_demand = 8
    /\ consumers[2].current_demand = 0

\* amount / duration <= limit, for a duration other than 0
QuotientAtMost(amount, duration, limit) ==
    IF duration > 0 THEN amount <= limit * duration ELSE amount >= limit * duration

\* what a feasibility check answers when the rate is infinite exactly for the
\* durations in unbounded: the rate within the limit and the amount within
\* the room
Feasible(unbounded, limit, room) ==
    /\ call.duration \notin unbounded
    /\ QuotientAtMost(call.amount, call.duration, limit)
    /\ call.amount <= room

FeasibilityCall == call.name \in {"can_charge", "can_discharge"}

FeasibilityLimit ==
    IF call.name = "can_charge" THEN call.unit.max_charge_rate
    ELSE call.unit.max_discharge_rate

FeasibilityRoom ==
    IF call.name = "can_charge" THEN call.unit.capacity - call.unit.current_level
    ELSE call.unit.current_level

\* C12 as stated: the rate is infinite only when duration = 0, so a negative
\* duration gives the rate amount/duration
C12_RateInfiniteOnlyAtZero ==
    FeasibilityCall =>
        /\ ~ret.raised
        /\ ret.value <=> Feasible({0}, FeasibilityLimit, FeasibilityRoom)
        /\ storage_units = <<call.unit>>

(* C12, amended: for every amount and duration, can_charge(amount,         *)
(* duration) is true iff the rate, amount/duration when duration > 0 and   *)
(* infinite when duration <= 0, does not exceed max_charge_rate and        *)
(* amount <= available_capacity; can_discharge is true iff that rate does  *)
(* not exceed max_discharge_rate and amount <= current_level; neither      *)
(* changes the storage unit.                                               *)
C12_FeasibilityContract ==
    FeasibilityCall =>
        /\ ~ret.raised
        /\ ret.value <=> Feasible({d \in Durations : d <= 0}, FeasibilityLimit,
                                  FeasibilityRoom)
        /\ storage_units = <<call.unit>>

\* can_charge accepts an amount above the rate limit because the duration
\* spreads it
C12_Witness ==
    /\ call.name = "can_charge"
    /\ call.duration > 1
    /\ call.amount > call.unit.max_charge_rate
    /\ ret.value = TRUE
    /\ storage_units = <<call.unit>>

\* the values of the entries of the dict of the call that lie at distance d
\* from the timestamp of the call
ValuesAtDistance(d) ==
    { call.forecast[i].value :
        i \in { j \in DOMAIN call.forecast : Abs(call.forecast[j].ts - call.timestamp) = d } }

\* the least distance between the timestamp of the call and an entry
LeastDistance ==
    CHOOSE d \in { Abs(call.forecast[i].ts - call.timestamp) : i \in DOMAIN call.forecast } :
        \A i \in DOMAIN call.forecast : d <= Abs(call.forecast[i].ts - call.timestamp)

(* C13: get_forecast(timestamp) of a producer or consumer returns the      *)
(* forecast entry at exactly that timestamp when one exists; otherwise the *)
(* value of an entry whose absolute time distance to the timestamp is      *)
(* minimal over all entries; and 0 when the forecast map is empty.         *)
C13_ExactElseNearestElseZero ==
    call.name = "get_forecast" =>
        /\ ~ret.raised
        /\ IF call.forecast = <<>> THEN ret.value = 0
           ELSE ret.value \in ValuesAtDistance(LeastDistance)

ReadOnlyOperations ==
    {"optimize_storage_allocation", "prioritize_loads", "get_current_balance",
     "forecast_balance"}

current_levels(S) == [i \in DOMAIN S |-> S[i].current_level]

current_productions(P) == [i \in DOMAIN P |-> P[i].current_production]

current_demands(C) == [i \in DOMAIN C |-> C[i].current_demand]

(* C14: optimize_storage_allocation, prioritize_loads, get_current_balance *)
(* and forecast_balance are read-only: a call of any of them, in any       *)
(* state, leaves every storage unit's current_level, every producer's      *)
(* current_production, every consumer's current_demand and the three       *)
(* mappings unchanged.                                                     *)
C14_ReadOnlyOperations ==
    [][call'.name \in ReadOnlyOperations =>
          /\ current_levels(storage_units') = current_levels(storage_units)
          /\ current_productions(producers') = current_productions(producers)
          /\ current_demands(consumers') = current_demands(consumers)
          /\ Keys(storage_units') = Keys(storage_units)
          /\ Keys(producers') = Keys(producers)
          /\ Keys(consumers') = Keys(consumers)]_vars

\* optimize_storage_allocation has returned decisions on a balancer that
\* execute_balancing_strategy has changed before
C14_Witness ==
    /\ call.name = "optimize_storage_allocation"
    /\ executions > 0
    /\ ~ret.raised
    /\ ret.value # <<>>

\* the unit of the k-th decision returned by optimize_storage_allocation
DecidedUnit(k) == storage_units[IndexOf(storage_units, ret.value[k].storage_id)]

\* what a unit can take (charge) or give (discharge)
Room(u, action) ==
    IF action = "charge" THEN u.capacity - u.current_level ELSE u.current_level

RateLimit(u, action) ==
    IF action = "charge" THEN u.max_charge_rate ELSE u.max_discharge_rate

FullAmount(u, action) == Min(Room(u, action), RateLimit(u, action))

\* u comes strictly before v in ascending (priority, -state_of_charge) order
OrderedBefore(u, v) ==
    \/ u.priority < v.priority
    \/ /\ u.priority = v.priority
       /\ u.current_level * v.capacity > v.current_level * u.capacity

\* the amount decided for the unit u, 0 without a decision
Received(u) ==
    IF \E k \in DOMAIN ret.value : ret.value[k].storage_id = u.id
    THEN ret.value[CHOOSE k \in DOMAIN ret.value : ret.value[k].storage_id = u.id].amount
    ELSE 0

\* the decisions are for units with room, in the order of the key, each of
\* the minimum of room, rate limit and what remains of the balance, and
\* whatever is ordered before a decided unit has got its full amount
AllocatedInOrder(action) ==
    LET D == ret.value
        total == Abs(energy_balance_at(call.timestamp))
    IN \A k \in DOMAIN D :
        /\ D[k].action = action
        /\ Room(DecidedUnit(k), action) > 0
        /\ D[k].amount = Min(FullAmount(DecidedUnit(k), action),
                             total - SeqSum([j \in 1..(k - 1) |-> D[j].amount]))
        /\ \A l \in DOMAIN D :
              k < l => /\ ~OrderedBefore(DecidedUnit(l), DecidedUnit(k))
                       /\ D[k].amount = FullAmount(DecidedUnit(k), action)
        /\ \A i \in DOMAIN storage_units :
              (Room(storage_units[i], action) > 0
                 /\ OrderedBefore(storage_units[i], DecidedUnit(k)))
              => Received(storage_units[i]) >= FullAmount(storage_units[i], action)

(* C15: on a forecast surplus, optimize_storage_allocation considers only  *)
(* units with available_capacity > 0, visits them in ascending (priority,  *)
(* -state_of_charge) order and gives each visited unit the amount          *)
(* min(available_capacity, max_charge_rate, remaining surplus); a unit     *)
(* receives a charge decision only if every unit ordered before it         *)
(* received its full min(available_capacity, max_charge_rate).             *)
C15_SurplusAllocationOrder ==
    (call.name = "optimize_storage_allocation" /\ energy_balance_at(call.timestamp) > 0) =>
        /\ ~ret.raised
        /\ AllocatedInOrder("charge")

\* two units of equal priority are charged, the one later in the dict first
\* because its state of charge is higher, and by its full amount
C15_Witness ==
    /\ call.name = "optimize_storage_allocation"
    /\ energy_balance_at(call.timestamp) > 0
    /\ ~ret.raised
    /\ Len(ret.value) = 2
    /\ DecidedUnit(1).priority = DecidedUnit(2).priority
    /\ IndexOf(storage_units, ret.value[1].storage_id)
         > IndexOf(storage_units, ret.value[2].storage_id)
    /\ ret.value[1].amount = FullAmount(DecidedUnit(1), "charge")
    /\ OrderedBefore(DecidedUnit(1), DecidedUnit(2))

(* C16: on a forecast deficit, optimize_storage_allocation considers only  *)
(* units with current_level > 0, visits them in ascending (priority,       *)
(* -state_of_charge) order and gives each visited unit the amount          *)
(* min(current_level, max_discharge_rate, remaining deficit), the          *)
(* remaining deficit starting at |energy_balance|; a unit receives a       *)
(* discharge decision only if every unit ordered before it discharges its  *)
(* full min(current_level, max_discharge_rate).                            *)
C16_DeficitAllocationOrder ==
    (call.name = "optimize_storage_allocation" /\ energy_balance_at(call.timestamp) < 0) =>
        /\ ~ret.raised
        /\ AllocatedInOrder("discharge")

\* two units are discharged, the first by its rate limit, which is below
\* its level, and the second by what remains of the deficit
C16_Witness ==
    /\ call.name = "optimize_storage_allocation"
    /\ energy_balance_at(call.timestamp) < 0
    /\ ~ret.raised
    /\ Len(ret.value) = 2
    /\ ret.value[1].amount = DecidedUnit(1).max_discharge_rate
    /\ ret.value[1].amount < DecidedUnit(1).current_level
    /\ ret.value[2].amount < FullAmount(DecidedUnit(2), "discharge")

DecisionActions == { ret.value[k].action : k \in DOMAIN ret.value }

(* C17: the direction of the decisions returned by                          *)
(* optimize_storage_allocation is fixed by the sign of the forecast         *)
(* energy_balance alone: every decision is a charge when energy_balance >   *)
(* 0, every decision is a discharge when energy_balance < 0, no decision is *)
(* returned when energy_balance = 0; one call never returns both charges    *)
(* and discharges.                                                          *)
C17_DirectionBySign ==
    (call.name = "optimize_storage_allocation" /\ ~ret.raised) =>
        /\ energy_balance_at(call.timestamp) > 0 => DecisionActions \subseteq {"charge"}
        /\ energy_balance_at(call.timestamp) < 0 => DecisionActions \subseteq {"discharge"}
        /\ energy_balance_at(call.timestamp) = 0 => ret.value = <<>>
        /\ Cardinality(DecisionActions) <= 1

\* a balanced forecast gives no decision although a unit has both room and
\* energy
C17_Witness ==
    /\ call.name = "optimize_storage_allocation"
    /\ ~ret.raised
    /\ consumers # <<>>
    /\ energy_balance_at(call.timestamp) = 0
    /\ \E i \in DOMAIN storage_units :
          /\ available_capacity(storage_units[i]) > 0
          /\ storage_units[i].current_level > 0
    /\ ret.value = <<>>

\* c comes strictly before d in descending (priority, flexibility) order
ShedBefore(c, d) ==
    \/ c.priority > d.priority
    \/ /\ c.priority = d.priority
       /\ c.flexibility.num * d.flexibility.den > d.flexibility.num * c.flexibility.den

\* current_demand * flexibility > 0
Sheddable(c) == c.current_demand * c.flexibility.num > 0

\* the amount by which the entries of load_management reduce the consumer c
Reduction(c) ==
    LET L == ret.value.load_management
    IN SeqSum([k \in DOMAIN L |-> IF L[k].consumer_id = c.id THEN L[k].reduction ELSE 0])

\* prioritize_loads gives one recommendation to each consumer with flexible
\* demand and to no other, in the order of ShedBefore
RecommendedInOrder ==
    LET R == ret.value
        of(k) == consumers[IndexOf(consumers, R[k].consumer_id)]
    IN /\ { R[k].consumer_id : k \in DOMAIN R }
            = { consumers[i].id : i \in { j \in DOMAIN consumers : Sheddable(consumers[j]) } }
       /\ \A k, l \in DOMAIN R :
            k < l => /\ R[k].consumer_id # R[l].consumer_id
                     /\ ~ShedBefore(of(l), of(k))

\* load_management follows the order of ShedBefore on the consumers as they
\* were before the call, and whoever is ordered before a shed consumer has
\* been shed by its full flexible demand
ShedInOrder ==
    LET L == ret.value.load_management
        C == call.consumers
        of(k) == C[IndexOf(C, L[k].consumer_id)]
    IN /\ \A k, l \in DOMAIN L :
            k < l => /\ ~ShedBefore(of(l), of(k))
                     /\ L[k].reduction = flexible_demand(of(k))
       /\ \A k \in DOMAIN L : \A i \in DOMAIN C :
            (Sheddable(C[i]) /\ ShedBefore(C[i], of(k)))
            => Reduction(C[i]) = flexible_demand(C[i])

(* C18: prioritize_loads returns recommendations exactly for the consumers *)
(* with current_demand * flexibility > 0, ordered by descending priority   *)
(* number and, within equal priority, by descending flexibility;           *)
(* execute_balancing_strategy sheds in that order, so a consumer is shed   *)
(* only if every consumer ordered before it was shed by its full flexible  *)
(* demand.                                                                 *)
C18_ShedLeastCriticalMostFlexibleFirst ==
    /\ call.name = "prioritize_loads" => (~ret.raised /\ RecommendedInOrder)
    /\ (call.name = "execute_balancing_strategy" /\ ~ret.raised) => ShedInOrder

\* two consumers of equal priority are shed, the one later in the dict first
\* because it is more flexible, and by its full flexible demand
C18_Witness ==
    /\ call.name = "execute_balancing_strategy"
    /\ ~ret.raised
    /\ Len(ret.value.load_management) = 2
    /\ LET L == ret.value.load_management
           first == IndexOf(call.consumers, L[1].consumer_id)
           second == IndexOf(call.consumers, L[2].consumer_id)
       IN /\ first > second
          /\ call.consumers[first].priority = call.consumers[second].priority
          /\ ShedBefore(call.consumers[first], call.consumers[second])
          /\ L[1].reduction = flexible_demand(call.consumers[first])
          /\ L[2].reduction > 0

\* the entries of storage_actions for the unit with identifier id
ActionsOn(id) ==
    { k \in DOMAIN ret.value.storage_actions : ret.value.storage_actions[k].storage_id = id }

(* C19: in execute_balancing_strategy the storage decisions computed for   *)
(* the first forecast timestamp are applied to the present storage state:  *)
(* every storage_actions entry records the amount returned by charge or    *)
(* discharge, which equals the absolute change of that unit's              *)
(* current_level during the call, and every unit without an entry keeps    *)
(* its current_level.  With an empty forecast there is no first timestamp  *)
(* and no decision.                                                        *)
C19_ActionsAreLevelChanges ==
    Executed =>
        /\ ret.value.storage_decisions
             = IF forecast_horizon = 0 THEN <<>>
               ELSE optimize_storage_allocation(producers, call.consumers,
                                                call.storage_units, call.now).value
        /\ Len(ret.value.storage_actions) = Len(ret.value.storage_decisions)
        /\ \A k \in DOMAIN ret.value.storage_actions :
              /\ ret.value.storage_actions[k].storage_id
                   = ret.value.storage_decisions[k].storage_id
              /\ ret.value.storage_actions[k].action = ret.value.storage_decisions[k].action
        /\ \A i \in DOMAIN storage_units :
              LET before == call.storage_units[i].current_level
                  after == storage_units[i].current_level
              IN /\ Cardinality(ActionsOn(storage_units[i].id)) <= 1
                 /\ ActionsOn(storage_units[i].id) = {} => after = before
                 /\ \A k \in ActionsOn(storage_units[i].id) :
                       /\ ret.value.storage_actions[k].amount = Abs(after - before)
                       /\ ret.value.storage_actions[k].action = "charge" => after >= before
                       /\ ret.value.storage_actions[k].action = "discharge" => after <= before

\* one unit is charged and another one, which has no entry, keeps its level
C19_Witness ==
    /\ Executed
    /\ \E i, j \in DOMAIN storage_units :
          /\ ActionsOn(storage_units[i].id) # {}
          /\ storage_units[i].current_level > call.storage_units[i].current_level
          /\ call.storage_units[i].current_level > 0
          /\ ActionsOn(storage_units[j].id) = {}
          /\ storage_units[j].current_level = call.storage_units[j].current_level

\* the entries of load_management for the consumer with identifier id
SheddingsOf(id) ==
    { k \in DOMAIN ret.value.load_management : ret.value.load_management[k].consumer_id = id }

(* C20: when execute_balancing_strategy sheds load, each consumer listed   *)
(* in load_management ends the call with current_demand equal to its       *)
(* pre-call value minus its reported reduction, which is                   *)
(* min(flexible_demand, remaining deficit); the change is in the state     *)
(* after the call (no rollback), and every consumer not listed keeps its   *)
(* current_demand.                                                         *)
C20_SheddingPersists ==
    Executed =>
        LET L == ret.value.load_management
        IN /\ \A k \in DOMAIN L :
                L[k].reduction
                  = Min(flexible_demand(call.consumers[IndexOf(call.consumers,
                                                               L[k].consumer_id)]),
                        step1_deficit - SeqSum([j \in 1..(k - 1) |-> L[j].reduction]))
           /\ \A i \in DOMAIN consumers :
                /\ Cardinality(SheddingsOf(consumers[i].id)) <= 1
                /\ SheddingsOf(consumers[i].id) = {} =>
                       consumers[i].current_demand = call.consumers[i].current_demand
                /\ \A k \in SheddingsOf(consumers[i].id) :
                       consumers[i].current_demand
                         = call.consumers[i].current_demand - L[k].reduction

\* one consumer is shed and keeps a lower, positive demand, and another one
\* is not listed
C20_Witness ==
    /\ Executed
    /\ \E i, j \in DOMAIN consumers :
          /\ SheddingsOf(consumers[i].id) # {}
          /\ consumers[i].current_demand > 0
          /\ consumers[i].current_demand < call.consumers[i].current_demand
          /\ SheddingsOf(consumers[j].id) = {}
          /\ consumers[j].current_demand = call.consumers[j].current_demand

\* the entries of grid_exchange for the peer at position k of the list
ExchangesWith(k) ==
    { i \in DOMAIN ret.value.grid_exchange :
        ret.value.grid_exchange[i].connected_grid = connected_microgrids[k] }

\* the running balance as the exchanges with the first k peers leave it
RunningBalanceAfter(k) ==
    LET x == ret.value.grid_exchange
    IN step1_balance
         - SeqSum([i \in DOMAIN x |->
                     IF \E j \in 1..k : i \in ExchangesWith(j)
                     THEN IF x[i].direction = "export" THEN x[i].amount ELSE 0 - x[i].amount
                     ELSE 0])

WithoutForecasts(P) == [i \in DOMAIN P |-> [P[i] EXCEPT !.forecast = <<>>]]

\* the reports of execute_balancing_strategy on the same producers' outputs,
\* consumers and peers as the call, with any storage units of the setups,
\* any forecast horizon, any time and with or without production forecasts
AlternativeReports ==
    { execute_balancing_strategy(P, call.consumers, S, connected_microgrids, h, now).out :
        P \in {producers, WithoutForecasts(producers)}, S \in StorageSetups,
        h \in 0..MaxHorizon, now \in Times }

\* every alternative report that is returned has the lists of this report
SameSheddingAndExchange ==
    \A r \in AlternativeReports :
        ~r.raised => /\ r.value.load_management = ret.value.load_management
                     /\ r.value.grid_exchange = ret.value.grid_exchange

Stepped == call.name = "run_timestep" /\ ~ret.raised

(* C23: in the simulation step loop every step first sets each producer's  *)
(* current_production and each consumer's current_demand from              *)
(* get_forecast(current_time) and only then calls                          *)
(* execute_balancing_strategy, so a reduction applied by load shedding in  *)
(* one step never carries over into the demand used by the balance of the  *)
(* next step.                                                              *)
C23_StepRefreshesBeforeBalancing ==
    Stepped =>
        /\ \A i \in DOMAIN producers :
              producers[i].current_production
                = get_forecast(producers[i], call.current_time).value
        /\ \A i \in DOMAIN call.consumers :
              call.consumers[i].current_demand
                = get_forecast(call.consumers[i], call.current_time).value
        /\ call.balance_actions.current_balance.production
             = production_forecast(producers, call.current_time)
        /\ call.balance_actions.current_balance.consumption
             = consumption_forecast(call.consumers, call.current_time)

\* the step before shed load, which left a consumer below its forecast, and
\* this step balanced with the demand of the forecast
C23_Witness ==
    /\ Stepped
    /\ Len(metrics) = 2
    /\ metrics[1].load_shedding > 0
    /\ \E i \in DOMAIN call.stale :
          /\ call.stale[i].current_demand
               < get_forecast(call.stale[i], call.current_time - timestep).value
          /\ call.consumers[i].current_demand # call.stale[i].current_demand
    /\ call.balance_actions.current_balance.consumption
         = consumption_forecast(call.consumers, call.current_time)

C24_ExecuteNeverDividesByZero ==
    call.name = "execute_balancing_strategy" => ~ret.raised

\* a report is returned with storage decisions although one of the units
\* has capacity 0
C24_Witness ==
    /\ Executed
    /\ \E i \in DOMAIN storage_units : storage_units[i].capacity = 0
    /\ ret.value.storage_actions # <<>>
    /\ ret.value.current_balance.storage_capacity > 0

(* C26: inside execute_balancing_strategy the clamp of charge / discharge  *)
(* never takes effect: for every storage decision the amount applied and   *)
(* reported equals the amount decided by optimize_storage_allocation,      *)
(* because each decision is bounded by the unit's present                  *)
(* available_capacity (charge) or current_level (discharge) and each unit  *)
(* is touched at most once per call.                                       *)
C26_ClampNeverBinds ==
    Executed =>
        LET D == ret.value.storage_decisions
            A == ret.value.storage_actions
        IN /\ Len(A) = Len(D)
           /\ \A k \in DOMAIN D :
                LET unit == call.storage_units[IndexOf(call.storage_units, D[k].storage_id)]
                IN /\ A[k].storage_id = D[k].storage_id
                   /\ A[k].amount = D[k].amount
                   /\ D[k].amount <= Room(unit, D[k].action)
           /\ \A k, l \in DOMAIN D : D[k].storage_id = D[l].storage_id => k = l

\* a unit is discharged by exactly its level and another by less
C26_Witness ==
    /\ Executed
    /\ Len(ret.value.storage_actions) = 2
    /\ \E k \in DOMAIN ret.value.storage_actions :
          LET unit == call.storage_units[IndexOf(call.storage_units,
                                                 ret.value.storage_actions[k].storage_id)]
          IN /\ ret.value.storage_actions[k].action = "discharge"
             /\ ret.value.storage_actions[k].amount = unit.current_level
             /\ unit.current_level < unit.max_discharge_rate

\* the sum of the export amounts (sign 1) or import amounts (sign -1)
Exchanged(direction) ==
    LET x == ret.value.grid_exchange
    IN SeqSum([i \in DOMAIN x |-> IF x[i].direction = direction THEN x[i].amount ELSE 0])

(* C27: in one call of execute_balancing_strategy all grid_exchange        *)
(* entries have the same direction, every recorded amount is > 0, exports  *)
(* never bring the running balance below 20 and imports never raise it     *)
(* above -10; the total exported is min(10 * number of peers, step-1       *)
(* balance - 20) when the step-1 balance exceeds 20.                       *)
C27_ExchangeOneDirection ==
    Executed =>
        LET x == ret.value.grid_exchange
        IN /\ \A i, j \in DOMAIN x : x[i].direction = x[j].direction
           /\ \A i \in DOMAIN x : x[i].amount > 0
           /\ Exchanged("export") > 0 => step1_balance - Exchanged("export") >= 20
           /\ Exchanged("import") > 0 => step1_balance + Exchanged("import") <= -10
           /\ step1_balance > 20 =>
                 Exchanged("export")
                   = Min(10 * Len(connected_microgrids), step1_balance - 20)

\* three peers take 10 each and the balance stays above 20
C27_Witness ==
    /\ Executed
    /\ Len(connected_microgrids) = 3
    /\ Exchanged("export") = 30
    /\ step1_balance - 20 > 30

\* max(0, min(room, rate limit)) summed over the units
TotalFullAmount(action) ==
    SeqSum([i \in DOMAIN storage_units |->
              IF FullAmount(storage_units[i], action) > 0
              THEN FullAmount(storage_units[i], action) ELSE 0])

(* C28: storage allocation is exhaustive: for a forecast surplus S > 0 the *)
(* sum of the charge amounts equals min(S, sum over all units of           *)
(* max(0, min(available_capacity, max_charge_rate))), and for a forecast   *)
(* deficit D > 0 the sum of the discharge amounts equals min(D, sum over   *)
(* all units of max(0, min(current_level, max_discharge_rate))).           *)
C28_AllocationExhaustive ==
    (call.name = "optimize_storage_allocation" /\ ~ret.raised) =>
        /\ energy_balance_at(call.timestamp) > 0 =>
              Amounts_of(ret.value)
                = Min(energy_balance_at(call.timestamp), TotalFullAmount("charge"))
        /\ energy_balance_at(call.timestamp) < 0 =>
              Amounts_of(ret.value)
                = Min(Abs(energy_balance_at(call.timestamp)), TotalFullAmount("discharge"))

\* two units are charged and part of the surplus is left because both are
\* at their capacity or rate limit
C28_Witness ==
    /\ call.name = "optimize_storage_allocation"
    /\ ~ret.raised
    /\ energy_balance_at(call.timestamp) > 0
    /\ Len(ret.value) = 2
    /\ Amounts_of(ret.value) < energy_balance_at(call.timestamp)
    /\ Amounts_of(ret.value) = TotalFullAmount("charge")

\* current_demand * flexibility summed over the consumers before the call
TotalFlexibleDemand ==
    SeqSum([i \in DOMAIN call.consumers |->
              IF Sheddable(call.consumers[i]) THEN flexible_demand(call.consumers[i]) ELSE 0])

C30_ActionsWithinRateLimits ==
    Stepped =>
        LET A == call.balance_actions.storage_actions
        IN /\ \A k \in DOMAIN A :
                LET unit == call.storage_units[IndexOf(call.storage_units, A[k].storage_id)]
                IN /\ A[k].amount > 0
                   /\ A[k].amount <= RateLimit(unit, A[k].action)
           /\ \A k, l \in DOMAIN A : A[k].storage_id = A[l].storage_id => k = l

\* a unit is discharged by its rate limit, which is below its level, beside
\* a unit with negative rate limits, which gets no action
C30_Witness ==
    /\ Stepped
    /\ Len(call.storage_units) = 2
    /\ \E i \in DOMAIN call.storage_units : call.storage_units[i].max_discharge_rate < 0
    /\ Len(call.balance_actions.storage_actions) = 1
    /\ call.balance_actions.storage_actions[1].action = "discharge"
    /\ call.balance_actions.storage_actions[1].amount
         = call.storage_units[IndexOf(call.storage_units,
               call.balance_actions.storage_actions[1].storage_id)].max_discharge_rate

====
